---- MODULE Spec2Model ----
(***************************************************************************)
(* A model of site-to-md: URLToMarkdownConverter (site_to_md/converter.py  *)
(* and the second copy of it, site_to_md/site_to_md/converter.py) and the  *)
(* command line entry point (site_to_md/cli.py).                           *)
(*                                                                         *)
(* A text is a sequence of one-character strings.  A parsed document (the  *)
(* BeautifulSoup tree) is a sequence of nodes in document order; a node    *)
(* names its parent by id (0: the top of the tree).                        *)
(***************************************************************************)
EXTENDS Integers, Sequences, FiniteSets, TLC

VARIABLES
    pc,            \* the position of the run: the statement convert()/main() is at
    variant,       \* which copy of converter.py runs: "converter" or "nested"
    config,        \* ConversionConfig: remove_elements, code_language_classes, base_url
    url,           \* the url argument, a text (NoneT: clean_html called without one)
    page,          \* what the web serves at url (the environment)
    html_content,  \* convert(): the fetched page
    parsed,        \* clean_html(): the soup as parsed, before any removal
    soup,          \* clean_html(): the soup
    markdown,      \* html_to_markdown(): markdown
    filename,      \* convert(): filename
    outfile,       \* the output file on disk: NoFile or its text
    before,        \* what was at the output path when the run started
    fetches,       \* the number of requests.get calls made
    failed,        \* the stage whose exception left convert(), or "none"
    exitcode       \* what main() returned: NoExit, 0 or 1

vars == <<pc, variant, config, url, page, html_content, parsed, soup, markdown,
          filename, outfile, before, fetches, failed, exitcode>>

\* Python's None where a text is expected (no text of the model equals it)
NoneT == <<"<None>">>
\* no file at the output path
NoFile == <<"<NoFile>">>
\* main() has not returned
NoExit == -1

(***************************************************************************)
(* Texts                                                                   *)
(***************************************************************************)
Space == " "
NL == "\n"
\* Python's \s, on the characters of the model
Whitespace == {" ", "\n"}
AsciiLetters ==
    {"a", "b", "c", "d", "e", "f", "g", "h", "i", "j", "k", "l", "m", "n", "o",
     "p", "q", "r", "s", "t", "u", "v", "w", "x", "y", "z"}
AsciiCapitals ==
    {"A", "B", "C", "D", "E", "F", "G", "H", "I", "J", "K", "L", "M", "N", "O",
     "P", "Q", "R", "S", "T", "U", "V", "W", "X", "Y", "Z"}
Digits == {"0", "1", "2", "3", "4", "5", "6", "7", "8", "9"}
\* letters outside ASCII: Python 3's \w on a str matches them
UnicodeLetters == {"é"}
\* Python's \w on a str pattern
WordChars == AsciiLetters \cup AsciiCapitals \cup Digits \cup {"_"} \cup UnicodeLetters

RECURSIVE Cat(_)
\* "".join(parts)
Cat(parts) == IF parts = <<>> THEN <<>> ELSE Head(parts) \o Cat(Tail(parts))

SeqsUpTo(S, n) == UNION {[1..k -> S] : k \in 0..n}

\* s[i:].startswith(lit), i counted from 1
StartsWithAt(s, i, lit) ==
    /\ i + Len(lit) - 1 <= Len(s)
    /\ SubSeq(s, i, i + Len(lit) - 1) = lit

\* str.startswith
StartsWith(s, lit) == StartsWithAt(s, 1, lit)

\* str.endswith
EndsWith(s, lit) == Len(lit) <= Len(s) /\ SubSeq(s, Len(s) - Len(lit) + 1, Len(s)) = lit

\* the end of the longest run of characters of S that starts at i: the first
\* index from i on that holds no character of S (a greedy S*)
Span(s, i, S) ==
    CHOOSE j \in i..(Len(s) + 1) :
        /\ \A k \in i..(j - 1) : s[k] \in S
        /\ j = Len(s) + 1 \/ s[j] \notin S

\* the first index from i on that holds a character of S, Len(s) + 1 if none
IndexOf(s, i, S) ==
    CHOOSE j \in i..(Len(s) + 1) :
        /\ \A k \in i..(j - 1) : s[k] \notin S
        /\ j = Len(s) + 1 \/ s[j] \in S

\* s contains t as a substring
Contains(s, t) == \E i \in 1..(Len(s) + 1) : StartsWithAt(s, i, t)

\* str.lstrip(c)
LStrip(s, c) == SubSeq(s, Span(s, 1, {c}), Len(s))

\* str.rstrip(c)
RStrip(s, c) ==
    LET last == CHOOSE j \in 0..Len(s) :
                    /\ \A k \in (j + 1)..Len(s) : s[k] = c
                    /\ j = 0 \/ s[j] # c
    IN SubSeq(s, 1, last)

\* the backquote character (a TLA+ string cannot hold it)
Backquote == "BACKQUOTE"
Fence == <<Backquote, Backquote, Backquote>>
CodeOpen == <<"[", "c", "o", "d", "e", "]">>
CodeClose == <<"[", "/", "c", "o", "d", "e", "]">>

(***************************************************************************)
(* The post-processing of html_to_markdown: four re.sub calls              *)
(***************************************************************************)
\* re.match of one of the four patterns at index i of s: the index after the
\* match, or 0 when the pattern does not match there
MatchEnd(pat, s, i) ==
    CASE pat = "code_open" ->                      \* "[code]", then any whitespace
           IF StartsWithAt(s, i, CodeOpen)
           THEN Span(s, i + Len(CodeOpen), Whitespace) ELSE 0
      [] pat = "code_close" ->                     \* any whitespace, then "[/code]"
           LET j == Span(s, i, Whitespace)
           IN IF StartsWithAt(s, j, CodeClose) THEN j + Len(CodeClose) ELSE 0
      [] pat = "fence_open" ->                     \* a fence, any word characters, two newlines
           IF StartsWithAt(s, i, Fence)
           THEN LET j == Span(s, i + 3, WordChars)
                IN IF StartsWithAt(s, j, <<NL, NL>>) THEN j + 2 ELSE 0
           ELSE 0
      [] pat = "fence_close" ->                    \* two newlines, a fence
           IF StartsWithAt(s, i, <<NL, NL>> \o Fence) THEN i + 5 ELSE 0

\* the replacement of the match s[i .. e-1]
Replacement(pat, s, i, e) ==
    CASE pat = "code_open" -> <<>>
      [] pat = "code_close" -> <<>>
      [] pat = "fence_open" -> SubSeq(s, i, e - 2)          \* the fence, the word, one newline
      [] pat = "fence_close" -> <<NL>> \o Fence             \* one newline, the fence

\* re.search from index i on: the leftmost index the pattern matches at, 0 if none
SearchFrom(pat, s, i) ==
    LET hits == {j \in i..Len(s) : MatchEnd(pat, s, j) # 0}
    IN IF hits = {} THEN 0 ELSE CHOOSE j \in hits : \A k \in hits : j <= k

RECURSIVE ReSubFrom(_, _, _)
\* re.sub from index i on: the leftmost match is replaced and the scan goes on
\* after it, so the replaced text is never scanned again
ReSubFrom(pat, s, i) ==
    LET m == SearchFrom(pat, s, i)
    IN IF m = 0 THEN SubSeq(s, i, Len(s))
       ELSE LET e == MatchEnd(pat, s, m)
            IN SubSeq(s, i, m - 1) \o Replacement(pat, s, m, e) \o ReSubFrom(pat, s, e)

\* re.sub(pattern, repl, s)
ReSub(pat, s) == ReSubFrom(pat, s, 1)

\* converter.py 168-173
PostProcessor(md) ==
    ReSub("fence_close", ReSub("fence_open", ReSub("code_close", ReSub("code_open", md))))

(***************************************************************************)
(* The soup: nodes in document order                                       *)
(***************************************************************************)
TextNode == "#text"

\* an element: a Tag with its class list and its href (of an a) or src (of an img)
Elem(id, parent, name, class, attr) ==
    [id |-> id, parent |-> parent, name |-> name, text |-> <<>>, class |-> class, attr |-> attr]

\* a NavigableString
Txt(id, parent, text) ==
    [id |-> id, parent |-> parent, name |-> TextNode, text |-> text, class |-> <<>>, attr |-> NoneT]

Ids(s) == {s[i].id : i \in DOMAIN s}

NodeOf(s, id) == s[CHOOSE i \in DOMAIN s : s[i].id = id]

RECURSIVE Ancestors(_, _)
\* the ids of the elements above node id (Tag.parents)
Ancestors(s, id) ==
    IF id \notin Ids(s) THEN {}
    ELSE LET p == NodeOf(s, id).parent
         IN IF p = 0 THEN {} ELSE {p} \cup Ancestors(s, p)

\* the nodes below element id, in document order (Tag.descendants)
Descendants(s, id) ==
    LET Below(n) == id \in Ancestors(s, n.id) IN SelectSeq(s, Below)

\* soup.find_all(names): the ids of the elements so named, in document order
find_all(s, names) ==
    LET Named(n) == n.name # TextNode /\ n.name \in names
        hits == SelectSeq(s, Named)
    IN [i \in DOMAIN hits |-> hits[i].id]

\* a removal that takes the element out and leaves what it holds in its place
\* (Tag.unwrap() where decompose() is meant)
unwrap(s, id) ==
    IF id \notin Ids(s) THEN s
    ELSE LET Kept(n) == n.id # id
             rest == SelectSeq(s, Kept)
         IN [i \in DOMAIN rest |->
                IF rest[i].parent = id THEN [rest[i] EXCEPT !.parent = NodeOf(s, id).parent]
                ELSE rest[i]]

\* element.decompose(): the element and everything below it leaves the tree
decompose(s, id) ==
    LET Kept(n) == n.id # id /\ id \notin Ancestors(s, n.id) IN SelectSeq(s, Kept)

RECURSIVE DecomposeEach(_, _)
\* converter.py 94-95: the loop over the list find_all returned
DecomposeEach(s, ids) ==
    IF ids = <<>> THEN s ELSE DecomposeEach(decompose(s, Head(ids)), Tail(ids))

\* converter.py 94-95
RemoveUnwanted(s, remove_elements) == DecomposeEach(s, find_all(s, remove_elements))

(***************************************************************************)
(* _process_code_blocks                                                    *)
(***************************************************************************)
Dash == "-"

\* converter.py 122: cls.split('-')[1], which raises IndexError when cls holds no '-'
SplitSecond(cls) ==
    LET d == IndexOf(cls, 1, {Dash})
    IN IF d > Len(cls) THEN [raised |-> TRUE, value |-> <<>>]
       ELSE [raised |-> FALSE, value |-> SubSeq(cls, d + 1, IndexOf(cls, d + 1, {Dash}) - 1)]

\* converter.py 118-123: the language of a code element from its class list
Language(classes, prefixes) ==
    LET Marked(cls) == \E k \in DOMAIN prefixes : StartsWith(cls, prefixes[k])
        hits == SelectSeq(classes, Marked)
    IN IF hits = <<>> THEN [raised |-> FALSE, value |-> <<>>]
       ELSE SplitSecond(Head(hits))

\* Tag.get_text(): the strings below the element, joined
get_text(s, id) ==
    LET below == Descendants(s, id)
        IsText(n) == n.name = TextNode
        strings == SelectSeq(below, IsText)
    IN Cat([i \in DOMAIN strings |-> strings[i].text])

\* converter.py 128: the text of the new pre
FencedUnit(language, code_text) == Fence \o language \o <<NL>> \o code_text \o <<NL>> \o Fence

\* converter.py 127-129: pre.replace_with(new_tag), new_tag a pre holding one string
\* (tid: the id the new string takes).  A pre that has already left the tree with
\* an enclosing pre is replaced inside the detached subtree: the soup is unchanged.
ReplacePre(s, pre, tid, text) ==
    IF pre \notin Ids(s) THEN s
    ELSE LET i == CHOOSE k \in DOMAIN s : s[k].id = pre
             Outside(n) == pre \notin Ancestors(s, n.id)
         IN SubSeq(s, 1, i - 1)
            \o <<Elem(pre, s[i].parent, "pre", <<>>, NoneT), Txt(tid, pre, text)>>
            \o SelectSeq(SubSeq(s, i + 1, Len(s)), Outside)

RECURSIVE ProcessPres(_, _, _, _)
\* converter.py 114-129: the loop over find_all('pre'); s0 is the soup the list was
\* taken from (the subtree of a pre is as it was when its turn comes)
ProcessPres(s, s0, pres, prefixes) ==
    IF pres = <<>> THEN [raised |-> FALSE, soup |-> s]
    ELSE LET pre == Head(pres)
             IsCode(n) == n.name = "code"
             codes == SelectSeq(Descendants(s0, pre), IsCode)
         IN IF codes = <<>> THEN ProcessPres(s, s0, Tail(pres), prefixes)
            ELSE LET code == Head(codes)
                     language == Language(code.class, prefixes)
                 IN IF language.raised THEN [raised |-> TRUE, soup |-> s]
                    ELSE ProcessPres(
                             ReplacePre(s, pre, code.id,
                                        FencedUnit(language.value, get_text(s0, code.id))),
                             s0, Tail(pres), prefixes)

\* converter.py 107-129
process_code_blocks(s, prefixes) == ProcessPres(s, s, find_all(s, {"pre"}), prefixes)

(***************************************************************************)
(* _convert_relative_urls                                                  *)
(***************************************************************************)
Slash == "/"
Http == <<"h", "t", "t", "p", ":", "/", "/">>
Https == <<"h", "t", "t", "p", "s", ":", "/", "/">>

\* converter.py 141, 144: the test that leaves a reference alone
IsAbsolute(ref) == StartsWith(ref, Http) \/ StartsWith(ref, Https)

\* a join that strips nothing
JoinUrlUnstripped(base_url, ref) == base_url \o <<Slash>> \o ref

\* converter.py 142, 145
JoinUrl(base_url, ref) == RStrip(base_url, Slash) \o <<Slash>> \o LStrip(ref, Slash)

\* converter.py 140-145, for one reference
RewriteRef(base_url, ref) == IF IsAbsolute(ref) THEN ref ELSE JoinUrl(base_url, ref)

\* converter.py 131-145
convert_relative_urls(s, base_url) ==
    [i \in DOMAIN s |->
        IF s[i].name \in {"a", "img"} /\ s[i].attr # NoneT
        THEN [s[i] EXCEPT !.attr = RewriteRef(base_url, @)]
        ELSE s[i]]

\* Python's truth value of an Optional[str]
Truthy(t) == t # NoneT /\ t # <<>>

\* converter.py 101: url or self.config.base_url
BaseUrl(u, cfg) == IF Truthy(u) THEN u ELSE cfg.base_url

(***************************************************************************)
(* html_to_markdown: html2text's rendering of the elements the model uses  *)
(***************************************************************************)
\* html2text's pending paragraph break (p_p), a mark until the text is joined
Para == "<PARA>"
Indent == <<Space, Space, Space, Space>>

RECURSIVE CollapseSpace(_, _)
\* html2text outside a pre: each run of whitespace becomes one space
CollapseSpace(t, i) ==
    LET w == IndexOf(t, i, Whitespace)
    IN IF w > Len(t) THEN SubSeq(t, i, Len(t))
       ELSE SubSeq(t, i, w - 1) \o <<Space>> \o CollapseSpace(t, Span(t, w, Whitespace))

RECURSIVE IndentFrom(_, _)
IndentFrom(t, i) ==
    LET n == IndexOf(t, i, {NL})
    IN IF n > Len(t) THEN SubSeq(t, i, Len(t))
       ELSE SubSeq(t, i, n) \o Indent \o IndentFrom(t, n + 1)

\* html2text inside a pre: every newline is followed by the indentation
IndentLines(t) == IndentFrom(t, 1)

\* html2text at the start of a pre: the data starts on a line of its own
PreData(t) == IndentLines(IF StartsWith(t, <<NL>>) THEN t ELSE <<NL>> \o t)

\* the ids of the children of node id (0: the top), in document order
Children(s, id) ==
    LET Under(n) == n.parent = id
        kids == SelectSeq(s, Under)
    IN [i \in DOMAIN kids |-> kids[i].id]

RECURSIVE RenderNode(_, _, _)
RECURSIVE RenderEach(_, _, _)
RenderEach(s, ids, inpre) ==
    IF ids = <<>> THEN <<>>
    ELSE RenderNode(s, Head(ids), inpre) \o RenderEach(s, Tail(ids), inpre)

\* what html2text emits for one node
RenderNode(s, id, inpre) ==
    LET n == NodeOf(s, id)
        inner == RenderEach(s, Children(s, id), inpre)
    IN CASE n.name = TextNode ->
              IF inpre THEN n.text ELSE CollapseSpace(n.text, 1)
         [] n.name \in {"script", "style"} -> <<>>
         [] n.name = "pre" ->
              <<Para>> \o PreData(RenderEach(s, Children(s, id), TRUE)) \o <<Para>>
         [] n.name = "a" ->
              IF n.attr = NoneT THEN inner
              ELSE <<"[">> \o inner \o <<"]", "(">> \o n.attr \o <<")">>
         [] n.name = "img" ->
              IF n.attr = NoneT THEN <<>>
              ELSE <<"!", "[", "]", "(">> \o n.attr \o <<")">>
         [] n.name = "code" ->
              IF inpre THEN inner ELSE <<Backquote>> \o inner \o <<Backquote>>
         [] n.name \in {"p", "div"} -> <<Para>> \o inner \o <<Para>>
         [] OTHER -> inner

RECURSIVE JoinParagraphs(_, _)
\* the pending breaks become one blank line each (none at the very start)
JoinParagraphs(t, i) ==
    LET b == IndexOf(t, i, {Para})
    IN IF b > Len(t) THEN SubSeq(t, i, Len(t))
       ELSE SubSeq(t, i, b - 1) \o (IF b = 1 THEN <<>> ELSE <<NL, NL>>)
            \o JoinParagraphs(t, Span(t, b, {Para}))

\* converter.py 157-165: h.handle(html_content)
handle(s) == JoinParagraphs(RenderEach(s, Children(s, 0), FALSE), 1)

(***************************************************************************)
(* The output filename: generate_filename (converter.py) and               *)
(* _get_safe_filename (site_to_md/converter.py)                            *)
(***************************************************************************)
Dot == "."
DotMd == <<".", "m", "d">>

\* urllib.parse.urlparse, for a url without ";" parameters whose scheme, if it has
\* one, is made of letters: after the scheme and its ":", netloc runs from "//" to
\* the first "/", "?" or "#", and path from there to the first "?" or "#"
urlparse(u) ==
    LET c == IndexOf(u, 1, {":"})
        scheme == c > 1 /\ c <= Len(u) /\ \A k \in 1..(c - 1) : u[k] \in AsciiLetters
        r0 == IF scheme THEN c + 1 ELSE 1
        hasnet == StartsWithAt(u, r0, <<Slash, Slash>>)
        n0 == IF hasnet THEN r0 + 2 ELSE r0
        n1 == IF hasnet THEN IndexOf(u, n0, {Slash, "?", "#"}) ELSE r0
        p1 == IndexOf(u, n1, {"?", "#"})
    IN [netloc |-> SubSeq(u, n0, n1 - 1), path |-> SubSeq(u, n1, p1 - 1)]

RECURSIVE SplitFrom(_, _, _)
\* str.split(sep), from index i on
SplitFrom(t, sep, i) ==
    LET j == IndexOf(t, i, {sep})
    IN IF j > Len(t) THEN <<SubSeq(t, i, Len(t))>>
       ELSE <<SubSeq(t, i, j - 1)>> \o SplitFrom(t, sep, j + 1)

\* [p for p in t.split('/') if p]
PathParts(t) ==
    LET NonEmpty(x) == x # <<>> IN SelectSeq(SplitFrom(t, Slash, 1), NonEmpty)

Last(q) == q[Len(q)]

\* pathlib: Path(t).name, the last component, "." components and empty ones dropped
PathName(t) ==
    LET Real(x) == x # <<>> /\ x # <<Dot>>
        comps == SelectSeq(SplitFrom(t, Slash, 1), Real)
    IN IF comps = <<>> THEN <<>> ELSE Last(comps)

\* the percent escapes of the model
Escapes ==
    { [enc |-> <<"%", "2", "0">>, dec |-> <<Space>>],
      [enc |-> <<"%", "C", "3", "%", "A", "9">>, dec |-> <<"é">>] }

RECURSIVE UnquoteFrom(_, _)
\* urllib.parse.unquote
UnquoteFrom(t, i) ==
    LET hits == {j \in i..Len(t) : \E x \in Escapes : StartsWithAt(t, j, x.enc)}
    IN IF hits = {} THEN SubSeq(t, i, Len(t))
       ELSE LET m == CHOOSE j \in hits : \A k \in hits : j <= k
                x == CHOOSE y \in Escapes : StartsWithAt(t, m, y.enc)
            IN SubSeq(t, i, m - 1) \o x.dec \o UnquoteFrom(t, m + Len(x.enc))

unquote(t) == UnquoteFrom(t, 1)

\* str.strip('/')
Strip(t, c) == LStrip(RStrip(t, c), c)

\* os.path.splitext(t)[0] for a name without "/": the extension starts at the last
\* dot, unless only dots come before it
SplitextRoot(t) ==
    LET dots == {i \in DOMAIN t : t[i] = Dot}
        d == IF dots = {} THEN 0 ELSE CHOOSE i \in dots : \A j \in dots : j <= i
    IN IF d > 0 /\ \E k \in 1..(d - 1) : t[k] # Dot THEN SubSeq(t, 1, d - 1) ELSE t

\* converter.py 222: re.sub on the characters the class leaves out, a word character,
\* "-", "_" and "." being kept
SafeChars(t) ==
    [i \in DOMAIN t |-> IF t[i] \in WordChars \cup {Dash, "_", Dot} THEN t[i] ELSE "_"]

\* converter.py 201-226
generate_filename(u) ==
    LET parsed_url == urlparse(u)
        name == PathName(parsed_url.path)
        path_parts == PathParts(parsed_url.path)
        chosen == IF name # <<>> THEN name
                  ELSE IF path_parts # <<>> THEN Last(path_parts) ELSE parsed_url.netloc
        cleaned == SafeChars(chosen)
    IN IF EndsWith(cleaned, DotMd) THEN cleaned ELSE RStrip(cleaned, Dot) \o DotMd

\* site_to_md/converter.py 208-237
get_safe_filename(u) ==
    LET parsed_url == urlparse(u)
        parts == PathParts(Strip(unquote(parsed_url.path), Slash))
        base_name == IF parsed_url.path # <<>> /\ parsed_url.path # <<Slash>> /\ parts # <<>>
                     THEN Last(parts) ELSE parsed_url.netloc
    IN SafeChars(SplitextRoot(base_name)) \o DotMd

\* the filename convert() uses, by the copy of converter.py that runs
FilenameOf(v, u) == IF v = "nested" THEN get_safe_filename(u) ELSE generate_filename(u)

(***************************************************************************)
(* convert() and the functions it calls, one action per statement that can *)
(* end the run or that a later statement depends on                        *)
(***************************************************************************)
\* a fetch that is tried again after a failure
RetryFetch == "start"

\* converter.py 71-73 and 271-273: the exception is logged and raised again
AfterFetchError == "raised"

\* converter.py 68-70: requests.get answered and raise_for_status passed
Fetch ==
    /\ pc = "start"
    /\ fetches' = fetches + 1
    /\ html_content' = page
    /\ pc' = "fetched"
    /\ UNCHANGED <<variant, config, url, page, parsed, soup, markdown, filename,
                   outfile, before, failed, exitcode>>

\* converter.py 68-73: requests.get or raise_for_status raised RequestException
FetchFail ==
    /\ pc = "start"
    /\ fetches' = fetches + 1
    /\ pc' = AfterFetchError
    /\ failed' = "fetch"
    /\ UNCHANGED <<variant, config, url, page, html_content, parsed, soup, markdown,
                   filename, outfile, before, exitcode>>

\* the elements readability may judge to be the main content: the whole body (0)
\* or a div
Candidates(doc) == {0} \cup {doc[i].id : i \in {j \in DOMAIN doc : doc[j].name = "div"}}

\* the summary: the subtree of the chosen element, now the top of the tree
Summary(doc, root) ==
    IF root = 0 THEN doc
    ELSE LET Inside(n) == n.id = root \/ root \in Ancestors(doc, n.id)
             sub == SelectSeq(doc, Inside)
         IN [i \in DOMAIN sub |-> IF sub[i].id = root THEN [sub[i] EXCEPT !.parent = 0] ELSE sub[i]]

\* converter.py 87-91: Document(html_content).summary(), parsed by BeautifulSoup
Extract ==
    /\ pc = "fetched"
    /\ html_content # <<>>
    /\ \E root \in Candidates(html_content) :
          /\ parsed' = Summary(html_content, root)
          /\ soup' = Summary(html_content, root)
    /\ pc' = "parsed"
    /\ UNCHANGED <<variant, config, url, page, html_content, markdown, filename,
                   outfile, before, fetches, failed, exitcode>>

\* converter.py 87-88: summary() raises readability's Unparseable on a page lxml
\* finds empty; nothing in clean_html or convert catches it
ExtractFail ==
    /\ pc = "fetched"
    /\ html_content = <<>>
    /\ pc' = "raised"
    /\ failed' = "extract"
    /\ UNCHANGED <<variant, config, url, page, html_content, parsed, soup, markdown,
                   filename, outfile, before, fetches, exitcode>>

\* converter.py 93-95
RemoveElements ==
    /\ pc = "parsed"
    /\ soup' = RemoveUnwanted(soup, config.remove_elements)
    /\ pc' = "removed"
    /\ UNCHANGED <<variant, config, url, page, html_content, parsed, markdown, filename,
                   outfile, before, fetches, failed, exitcode>>

\* converter.py 97-98
ProcessCodeBlocks ==
    /\ pc = "removed"
    /\ LET r == process_code_blocks(soup, config.code_language_classes)
       IN /\ soup' = IF r.raised THEN soup ELSE r.soup
          /\ pc' = IF r.raised THEN "raised" ELSE "coded"
          /\ failed' = IF r.raised THEN "code" ELSE failed
    /\ UNCHANGED <<variant, config, url, page, html_content, parsed, markdown, filename,
                   outfile, before, fetches, exitcode>>

\* converter.py 100-105
ConvertRelativeUrls ==
    /\ pc = "coded"
    /\ LET base_url == BaseUrl(url, config)
       IN soup' = IF Truthy(base_url) THEN convert_relative_urls(soup, base_url) ELSE soup
    /\ pc' = "cleaned"
    /\ UNCHANGED <<variant, config, url, page, html_content, parsed, markdown, filename,
                   outfile, before, fetches, failed, exitcode>>

\* a rendering that starts from the normalized code blocks without waiting for the
\* references to be rewritten
RenderEarly ==
    /\ pc = "coded"
    /\ markdown' = handle(soup)
    /\ pc' = "rendered"
    /\ UNCHANGED <<variant, config, url, page, html_content, parsed, soup, filename,
                   outfile, before, fetches, failed, exitcode>>

\* converter.py 157-165
Render ==
    /\ pc = "cleaned"
    /\ markdown' = handle(soup)
    /\ pc' = "rendered"
    /\ UNCHANGED <<variant, config, url, page, html_content, parsed, soup, filename,
                   outfile, before, fetches, failed, exitcode>>

\* converter.py 167-175
PostProcess ==
    /\ pc = "rendered"
    /\ markdown' = PostProcessor(markdown)
    /\ pc' = "converted"
    /\ UNCHANGED <<variant, config, url, page, html_content, parsed, soup, filename,
                   outfile, before, fetches, failed, exitcode>>

\* converter.py 253-259: output_path.mkdir(parents=True, exist_ok=True)
Mkdir ==
    /\ pc = "converted"
    /\ pc' = "dir"
    /\ UNCHANGED <<variant, config, url, page, html_content, parsed, soup, markdown,
                   filename, outfile, before, fetches, failed, exitcode>>

\* converter.py 259: mkdir raised OSError
MkdirFail ==
    /\ pc = "converted"
    /\ pc' = "raised"
    /\ failed' = "mkdir"
    /\ UNCHANGED <<variant, config, url, page, html_content, parsed, soup, markdown,
                   filename, outfile, before, fetches, exitcode>>

\* converter.py 261-263 (site_to_md/converter.py 278-280)
GenerateFilename ==
    /\ pc = "dir"
    /\ filename' = FilenameOf(variant, url)
    /\ pc' = "named"
    /\ UNCHANGED <<variant, config, url, page, html_content, parsed, soup, markdown,
                   outfile, before, fetches, failed, exitcode>>

\* converter.py 267-269: write_text opened the file, wrote the text and closed it
WriteFile ==
    /\ pc = "named"
    /\ outfile' = markdown
    /\ pc' = "returned"
    /\ UNCHANGED <<variant, config, url, page, html_content, parsed, soup, markdown,
                   filename, before, fetches, failed, exitcode>>

\* converter.py 267: write_text could not open the file (permissions)
WriteOpenFail ==
    /\ pc = "named"
    /\ pc' = "raised"
    /\ failed' = "write"
    /\ UNCHANGED <<variant, config, url, page, html_content, parsed, soup, markdown,
                   filename, outfile, before, fetches, exitcode>>

\* what write_text leaves when the write fails after open(mode='w') has created or
\* truncated the file (disk full): the first k characters, k short of the text
Truncated(text, k) == SubSeq(text, 1, k)

\* converter.py 267: write_text opened the file and the write or the flush raised
WriteFail ==
    /\ pc = "named"
    /\ \E k \in 0..(Len(markdown) - 1) : outfile' = Truncated(markdown, k)
    /\ pc' = "raised"
    /\ failed' = "write"
    /\ UNCHANGED <<variant, config, url, page, html_content, parsed, soup, markdown,
                   filename, before, fetches, exitcode>>

\* cli.py 93 and 97: main's return value
ExitCode(raised) == IF raised THEN 1 ELSE 0

\* cli.py 88-97: convert returned or raised, and main returns
MainReturn ==
    /\ pc \in {"returned", "raised"}
    /\ exitcode' = ExitCode(pc = "raised")
    /\ pc' = "exit"
    /\ UNCHANGED <<variant, config, url, page, html_content, parsed, soup, markdown,
                   filename, outfile, before, fetches, failed>>

\* converter.py 75-105
clean_html == Extract \/ ExtractFail \/ RemoveElements \/ ProcessCodeBlocks \/ ConvertRelativeUrls

\* converter.py 147-175
html_to_markdown == Render \/ PostProcess

\* converter.py 228-273
convert ==
    \/ Fetch \/ FetchFail
    \/ clean_html
    \/ html_to_markdown
    \/ Mkdir \/ MkdirFail \/ GenerateFilename
    \/ WriteFile \/ WriteOpenFail \/ WriteFail

\* cli.py 71-97
Next == convert \/ MainReturn

(***************************************************************************)
(* Inputs                                                                  *)
(***************************************************************************)
LanguagePrefix == <<"l", "a", "n", "g", "u", "a", "g", "e", "-">>
LangPrefix == <<"l", "a", "n", "g", "-">>

\* converter.py 32-37: ConversionConfig() with nothing given
DefaultConfig ==
    [remove_elements |-> {"script", "style", "nav", "footer", "iframe", "aside"},
     code_language_classes |-> <<LanguagePrefix, LangPrefix>>,
     base_url |-> NoneT]

LangJs == <<"l", "a", "n", "g", "-", "j", "s">>
LangObjectiveC == <<"l", "a", "n", "g", "-", "o", "b", "j", "-", "c">>
Hljs == <<"h", "l", "j", "s">>
Lang == <<"l", "a", "n", "g">>

ExampleHost == Https \o <<"e", ".", "c", "o", "m">>
\* https://e.com/docs/guide.html
GuideUrl == ExampleHost \o <<"/", "d", "o", "c", "s", "/", "g", "u", "i", "d", "e", ".", "h", "t", "m", "l">>
\* https://e.com/blog/
BlogUrl == ExampleHost \o <<"/", "b", "l", "o", "g", "/">>
\* https://cdn.net
CdnUrl == Https \o <<"c", "d", "n", ".", "n", "e", "t">>
Post2 == <<"p", "o", "s", "t", "2">>
OldText == <<"o", "l", "d">>

\* a page: a nav, a paragraph, a code block and a link inside a div
ArticlePage ==
    << Elem(1, 0, "div", <<>>, NoneT),
       Elem(2, 1, "nav", <<>>, NoneT), Txt(3, 2, <<"m", "e", "n", "u">>),
       Elem(4, 1, "p", <<>>, NoneT), Txt(5, 4, <<"t", "e", "x", "t">>),
       Elem(6, 1, "pre", <<>>, NoneT), Elem(7, 6, "code", <<LangJs>>, NoneT),
       Txt(8, 7, <<"x", "=", "1">>),
       Elem(9, 1, "a", <<>>, Post2), Txt(10, 9, <<"g", "o">>) >>

\* a page of one image
ImagePage == << Elem(1, 0, "img", <<>>, <<"/", "i", ".", "p", "n", "g">>) >>

\* the state before anything has run
Idle ==
    /\ html_content = <<>> /\ parsed = <<>> /\ soup = <<>> /\ markdown = <<>>
    /\ filename = NoneT /\ fetches = 0 /\ failed = "none" /\ exitcode = NoExit

\* cli.py 79-88: main has built the converter and calls convert(url)
Init ==
    /\ pc = "start"
    /\ variant \in {"converter", "nested"}
    /\ config \in {DefaultConfig, [DefaultConfig EXCEPT !.base_url = CdnUrl]}
    /\ url \in {GuideUrl, BlogUrl}
    /\ page \in {<<>>, ArticlePage, ImagePage}
    /\ before \in {NoFile, OldText}
    /\ outfile = before
    /\ Idle

Spec == Init /\ [][Next]_vars

(***************************************************************************)
(* The post-processing on its own: html_to_markdown has rendered any text  *)
(***************************************************************************)
MaxChunks == 4

\* what the rendered texts are made of
PostChunks ==
    {<<NL>>, Fence, <<"a">>, <<Space>>, CodeOpen, CodeClose, <<"[", "c", "o">>, <<"d", "e", "]">>}

InitPost ==
    /\ pc = "rendered"
    /\ markdown \in {Cat(cs) : cs \in SeqsUpTo(PostChunks, MaxChunks)}
    /\ variant = "converter" /\ config = DefaultConfig /\ url = NoneT /\ page = <<>>
    /\ html_content = <<>> /\ parsed = <<>> /\ soup = <<>>
    /\ filename = NoneT /\ fetches = 0 /\ failed = "none" /\ exitcode = NoExit
    /\ before = NoFile /\ outfile = NoFile

SpecPost == InitPost /\ [][PostProcess]_vars

\* C1: the post-processing is idempotent: applied to the text it has produced, it
\* changes nothing, whatever text the renderer gave it.
C1_PostProcessorIdempotent == pc = "converted" => PostProcessor(markdown) = markdown

(***************************************************************************)
(* The filename on its own: convert() has reached converter.py 262         *)
(***************************************************************************)
MaxSegments == 3

Guide == <<"g", "u", "i", "d", "e">>
DotHtml == <<".", "h", "t", "m", "l">>
GuideHtml == Guide \o DotHtml

\* what the paths are made of
PathChunks ==
    {<<Slash>>, Guide, DotHtml, DotMd, <<Dot>>, <<"é">>, <<"%", "C", "3", "%", "A", "9">>,
     <<"%", "2", "0">>, <<"?", "q">>}

Hosts == {<<"e", ".", "c", "o", "m">>, <<"e", ".", "c", "o", "m", ":", "8", "0">>}

InitName ==
    /\ pc = "dir"
    /\ variant \in {"converter", "nested"}
    /\ url \in {Https \o h \o Cat(cs) : h \in Hosts, cs \in SeqsUpTo(PathChunks, MaxSegments)}
    /\ config = DefaultConfig /\ page = <<>>
    /\ html_content = <<>> /\ parsed = <<>> /\ soup = <<>> /\ markdown = <<>>
    /\ filename = NoneT /\ fetches = 1 /\ failed = "none" /\ exitcode = NoExit
    /\ before = NoFile /\ outfile = NoFile

SpecName == InitName /\ [][GenerateFilename]_vars

\* the characters the specification allows in a filename
PlainChars == AsciiLetters \cup AsciiCapitals \cup Digits \cup {Dot, "_", Dash}

\* the filename is the sanitised domain, or the start of it, and ".md"
FromDomain(name, netloc) ==
    /\ EndsWith(name, DotMd)
    /\ LET stem == SubSeq(name, 1, Len(name) - 3)
           safe == [i \in DOMAIN netloc |-> IF netloc[i] \in PlainChars THEN netloc[i] ELSE "_"]
       IN StartsWith(safe, stem) /\ stem # <<>>

\* C8: the filename ends in .md and holds only letters, digits, ".", "_" and "-";
\* a last path segment guide.html gives guide.md; an empty or "/" path gives a
\* name made from the domain.
C8_SafeFilename ==
    pc = "named" =>
        LET parsed_url == urlparse(url)
        IN /\ EndsWith(filename, DotMd)
           /\ \A i \in DOMAIN filename : filename[i] \in PlainChars
           /\ EndsWith(parsed_url.path, <<Slash>> \o GuideHtml) => filename = Guide \o DotMd
           /\ parsed_url.path \in {<<>>, <<Slash>>} => FromDomain(filename, parsed_url.netloc)

(***************************************************************************)
(* clean_html called on a page of one link or one image                    *)
(***************************************************************************)
MaxRefChunks == 3

\* what the references are made of
RefChunks == {Http, Https, <<Slash>>, <<"x">>, <<".", ".">>, <<"#", "f">>, Post2}

Refs == {Cat(cs) : cs \in SeqsUpTo(RefChunks, MaxRefChunks)}

\* https://e.com// : a base that ends in two slashes
TwoSlashUrl == ExampleHost \o <<Slash, Slash>>

InitUrl ==
    /\ pc = "fetched"
    /\ url \in {NoneT, <<>>, BlogUrl, CdnUrl}
    /\ config \in {[DefaultConfig EXCEPT !.base_url = b] : b \in {NoneT, CdnUrl, TwoSlashUrl}}
    /\ page \in {<<>>} \cup {<<Elem(1, 0, tag, <<>>, ref)>> : tag \in {"a", "img"}, ref \in Refs}
    /\ html_content = page
    /\ variant = "converter"
    /\ parsed = <<>> /\ soup = <<>> /\ markdown = <<>>
    /\ filename = NoneT /\ fetches = 0 /\ failed = "none" /\ exitcode = NoExit
    /\ before = NoFile /\ outfile = NoFile

SpecUrl == InitUrl /\ [][clean_html]_vars

RECURSIVE DropLeading(_, _)
\* t without the characters c it starts with
DropLeading(t, c) == IF t # <<>> /\ Head(t) = c THEN DropLeading(Tail(t), c) ELSE t

RECURSIVE DropTrailing(_, _)
\* t without the characters c it ends with
DropTrailing(t, c) ==
    IF t # <<>> /\ t[Len(t)] = c THEN DropTrailing(SubSeq(t, 1, Len(t) - 1), c) ELSE t

\* the reference the specification asks for: a reference with a scheme as it is,
\* any other after the base and one "/"
Rebased(base, ref) ==
    IF StartsWith(ref, Http) \/ StartsWith(ref, Https) THEN ref
    ELSE DropTrailing(base, Slash) \o <<Slash>> \o DropLeading(ref, Slash)

\* the links and images of the soup, each with the reference it was parsed with
References == {i \in DOMAIN soup : soup[i].name \in {"a", "img"} /\ soup[i].attr # NoneT}
Original(i) == NodeOf(parsed, soup[i].id).attr

\* C3: every href and src that starts with http:// or https:// is left as it is, and
\* every other becomes the base without its trailing slashes, one "/", and the
\* reference without its leading slashes; https://e.com/blog/ and post2 give
\* https://e.com/blog/post2.
C3_RelativeUrlsRebased ==
    (pc = "cleaned" /\ Truthy(BaseUrl(url, config))) =>
        \A i \in References :
            /\ soup[i].attr = Rebased(BaseUrl(url, config), Original(i))
            /\ (BaseUrl(url, config) = BlogUrl /\ Original(i) = Post2)
                   => soup[i].attr = BlogUrl \o Post2

\* a reference with leading slashes has been put after a base with a trailing slash
C3_Witness ==
    /\ pc = "cleaned"
    /\ BaseUrl(url, config) = BlogUrl
    /\ \E i \in References :
          /\ Original(i) = <<Slash, Slash, "x">>
          /\ soup[i].attr = ExampleHost \o <<"/", "b", "l", "o", "g", "/", "x">>

\* C10: config.base_url, when set, is the base the references are resolved against,
\* whatever the page's url; without it the page's url is; without both nothing is
\* rewritten.
C10_ConfigBaseOverrides ==
    pc = "cleaned" =>
        \A i \in References :
            soup[i].attr =
                IF Truthy(config.base_url) THEN Rebased(config.base_url, Original(i))
                ELSE IF Truthy(url) THEN Rebased(url, Original(i))
                ELSE Original(i)

(***************************************************************************)
(* clean_html and html_to_markdown called on every small tree              *)
(***************************************************************************)
MaxNodes == 4

TreeNames == {"div", "nav", "aside", "p", TextNode}

\* the text of the string that is node i: a character no other node holds
Mark(i) == <<(<<"1", "2", "3", "4", "5", "6", "7", "8", "9">>)[i]>>

\* shape[i] names node i and its parent; the nodes are in document order when each
\* parent is the node before or one of the elements above the node before
RECURSIVE Above(_, _)
Above(shape, i) == IF i = 0 THEN {0} ELSE {i} \cup Above(shape, shape[i].parent)

InDocumentOrder(shape) ==
    \A i \in DOMAIN shape :
        /\ shape[i].parent < i
        /\ shape[i].parent \in Above(shape, i - 1)
        /\ shape[i].parent # 0 => shape[shape[i].parent].name # TextNode

TreeOf(shape) ==
    [i \in DOMAIN shape |->
        IF shape[i].name = TextNode THEN Txt(i, shape[i].parent, Mark(i))
        ELSE Elem(i, shape[i].parent, shape[i].name, <<>>, NoneT)]

Trees ==
    {TreeOf(shape) : shape \in
        {sh \in SeqsUpTo([name : TreeNames, parent : 0..(MaxNodes - 1)], MaxNodes) :
            InDocumentOrder(sh)}}

InitTree ==
    /\ pc = "fetched"
    /\ page \in Trees
    /\ html_content = page
    /\ config \in {DefaultConfig, [DefaultConfig EXCEPT !.remove_elements = {"div", "nav"}]}
    /\ url = NoneT
    /\ variant = "converter"
    /\ parsed = <<>> /\ soup = <<>> /\ markdown = <<>>
    /\ filename = NoneT /\ fetches = 0 /\ failed = "none" /\ exitcode = NoExit
    /\ before = NoFile /\ outfile = NoFile

SpecTree == InitTree /\ [][clean_html \/ html_to_markdown]_vars

\* node id of the parsed soup is an element to remove or lies below one
Unwanted(id) ==
    \/ NodeOf(parsed, id).name \in config.remove_elements
    \/ \E a \in Ancestors(parsed, id) : NodeOf(parsed, a).name \in config.remove_elements

\* C2: once the removal has run, the soup holds no element named in remove_elements
\* and no node that was below one, at whatever depth; and the Markdown holds no text
\* of a removed subtree.
C2_RemovedSubtreesGone ==
    pc \in {"removed", "coded", "cleaned", "rendered", "converted"} =>
        /\ \A i \in DOMAIN soup : soup[i].name \notin config.remove_elements
        /\ \A id \in Ids(parsed) : Unwanted(id) => id \notin Ids(soup)
        /\ pc \in {"rendered", "converted"} =>
              \A id \in Ids(parsed) :
                  (Unwanted(id) /\ NodeOf(parsed, id).name = TextNode)
                      => ~Contains(markdown, NodeOf(parsed, id).text)

\* a nav inside a nav with text below it has been removed, and the text beside it
\* has reached the Markdown
C2_Witness ==
    /\ pc = "converted"
    /\ \E a, b, t \in Ids(parsed) :
          /\ NodeOf(parsed, a).name = "nav" /\ NodeOf(parsed, b).name = "nav"
          /\ NodeOf(parsed, b).parent = a
          /\ NodeOf(parsed, t).name = TextNode /\ NodeOf(parsed, t).parent = b
    /\ \E k \in Ids(parsed) :
          NodeOf(parsed, k).name = TextNode /\ Contains(markdown, NodeOf(parsed, k).text)

(***************************************************************************)
(* clean_html and html_to_markdown called on a page with one code block    *)
(***************************************************************************)
MaxClasses == 2
MaxCodeChunks == 2

LanguagePy == LanguagePrefix \o <<"p", "y">>

\* the classes a code element may carry
Classes == {LangJs, LangObjectiveC, LanguagePy, Hljs, Lang}

\* what the code texts are made of
CodeChunks == {<<"a">>, <<NL>>, <<Space>>, Fence, CodeOpen, CodeClose}

\* a paragraph, then a pre holding a code element with these classes and this text
CodePage(classes, text) ==
    << Elem(1, 0, "p", <<>>, NoneT), Txt(2, 1, <<"t">>),
       Elem(3, 0, "pre", <<>>, NoneT), Elem(4, 3, "code", classes, NoneT),
       Txt(5, 4, text) >>

InitCode ==
    /\ pc = "fetched"
    /\ page \in {<<>>} \cup
                 {CodePage(cl, Cat(cs)) : cl \in SeqsUpTo(Classes, MaxClasses),
                                          cs \in SeqsUpTo(CodeChunks, MaxCodeChunks)}
    /\ html_content = page
    /\ config \in {DefaultConfig, [DefaultConfig EXCEPT !.code_language_classes = <<Lang>>]}
    /\ url = NoneT
    /\ variant = "converter"
    /\ parsed = <<>> /\ soup = <<>> /\ markdown = <<>>
    /\ filename = NoneT /\ fetches = 0 /\ failed = "none" /\ exitcode = NoExit
    /\ before = NoFile /\ outfile = NoFile

SpecCode == InitCode /\ [][clean_html \/ html_to_markdown]_vars

\* the code elements of the parsed soup that sit in a pre
CodeBlocks ==
    {i \in DOMAIN parsed :
        /\ parsed[i].name = "code"
        /\ \E a \in Ancestors(parsed, parsed[i].id) : NodeOf(parsed, a).name = "pre"}

\* the language the specification asks for: what follows the first "-" of the
\* first class that begins with a recognised prefix, nothing when there is none
ExpectedLanguage(classes, prefixes) ==
    LET marked == {k \in DOMAIN classes :
                      \E q \in DOMAIN prefixes : StartsWith(classes[k], prefixes[q])}
    IN IF marked = {} THEN <<>>
       ELSE LET cls == classes[CHOOSE k \in marked : \A j \in marked : k <= j]
            IN SubSeq(cls, IndexOf(cls, 1, {Dash}) + 1, Len(cls))

\* C4: the language tag of a code block is what follows the first "-" of the first
\* class that begins with a recognised prefix (language-objective-c gives
\* objective-c), and empty when no class does.
C4_LanguageAfterFirstDash ==
    pc = "coded" =>
        \A i \in CodeBlocks :
            NodeOf(soup, parsed[i].id).text =
                Fence \o ExpectedLanguage(parsed[i].class, config.code_language_classes)
                      \o <<NL>> \o get_text(parsed, parsed[i].id) \o <<NL>> \o Fence

\* C5: for a code block of class lang-X the Markdown holds the line of the opening
\* fence and X, then at once the code text as it was in the code element (each
\* line with the indentation the renderer gives the lines of a pre), then the
\* closing fence, whatever the code text is.
C5_CodeTextVerbatim ==
    pc = "converted" =>
        \A i \in CodeBlocks :
            parsed[i].class = <<LangJs>> =>
                Contains(markdown,
                         IndentLines(Fence \o <<"j", "s", NL>>
                                     \o get_text(parsed, parsed[i].id) \o <<NL>> \o Fence))

(***************************************************************************)
(* Claims about a whole run of main() and convert()                        *)
(***************************************************************************)
\* C6: a failure at any stage ends convert() with the exception and leaves the
\* output path as it was; the output file changes only in a run in which no stage
\* failed, and then it holds the whole Markdown text.
C6_NoFileOnFailure ==
    /\ failed # "none" => (pc \in {"raised", "exit"} /\ outfile = before)
    /\ outfile # before => (failed = "none" /\ pc \in {"returned", "exit"} /\ outfile = markdown)

\* C7: the extraction never raises: clean_html gets past it on every page, the
\* empty one too.
C7_ExtractionNeverRaises == failed # "extract"

\* C9: a run makes at most one fetch; a failed fetch is not tried again, ends
\* convert() with the exception before any later stage has run, and main() then
\* returns 1; main() returns 0 only when convert() has returned a path.
C9_FetchOnceThenExit ==
    /\ fetches <= 1
    /\ failed = "fetch" =>
          /\ pc \in {"raised", "exit"}
          /\ fetches = 1
          /\ html_content = <<>> /\ soup = <<>> /\ markdown = <<>> /\ outfile = before
          /\ pc = "exit" => exitcode = 1
    /\ exitcode = 0 => (failed = "none" /\ filename # NoneT /\ outfile = markdown)
    /\ exitcode # NoExit => pc = "exit"

\* the fetch has failed and main() has returned 1
C9_Witness == pc = "exit" /\ failed = "fetch" /\ fetches = 1 /\ exitcode = 1

(***************************************************************************)
(* The order of the stages of a run.  pc names the stage that completed    *)
(* last: fetched (fetch), parsed (extract), removed (element removal),     *)
(* coded (code-block normalization), cleaned (URL rewriting), rendered,    *)
(* converted (post-process), dir, named and returned (persist)             *)
(***************************************************************************)
\* the order the specification gives: both halves of the sanitizing, then the code
\* blocks
ClaimedOrder ==
    <<"start", "fetched", "parsed", "removed", "cleaned", "coded", "rendered",
      "converted", "dir", "named", "returned">>

\* the order with the code blocks between the two halves of the sanitizing
RemovalCodeUrlOrder ==
    <<"start", "fetched", "parsed", "removed", "coded", "cleaned", "rendered",
      "converted", "dir", "named", "returned">>

PlaceIn(order, p) == CHOOSE i \in DOMAIN order : order[i] = p

\* this step completes the stage that comes next in the order, or it is the failure
\* of that stage (convert() raises), or main() returning after convert() has ended
StepFollows(order) ==
    \/ /\ pc \in {order[i] : i \in 1..(Len(order) - 1)}
       /\ pc' \in {order[PlaceIn(order, pc) + 1], "raised"}
    \/ /\ pc \in {"returned", "raised"}
       /\ pc' = "exit"

\* C11 as the specification states it: every run of convert() goes through fetch,
\* extract, element removal, URL rewriting, code-block normalization, render,
\* post-process, persist in this order, each stage starting when the one before it
\* has completed and none running twice: the code blocks are normalized after the
\* references have been rewritten.
C11_StagesInClaimedOrder == [][StepFollows(ClaimedOrder)]_vars

\* C11 (amended): every run of convert() goes through fetch, extract, element
\* removal, code-block normalization, URL rewriting, render, post-process, persist
\* in this order, each stage starting when the one before it has completed and none
\* running twice, up to the first stage that fails: the code blocks are normalized
\* after the element removal and before the references are rewritten.
C11_StagesInCodeOrder == [][StepFollows(RemovalCodeUrlOrder)]_vars

\* a run has gone through every stage of a page with a code block and a relative
\* reference, and the file holds the Markdown
C11_Witness ==
    /\ pc = "returned" /\ failed = "none" /\ page = ArticlePage
    /\ soup # parsed /\ outfile = markdown /\ filename # NoneT

(***************************************************************************)
(* What the post-processing leaves alone                                   *)
(***************************************************************************)
\* the index of the first fence of a text, 0 when it holds none
FirstFence(t) ==
    LET at == {i \in DOMAIN t : StartsWithAt(t, i, Fence)}
    IN IF at = {} THEN 0 ELSE CHOOSE i \in at : \A k \in at : i <= k

\* the text holds neither marker
NoMarkers(t) == ~Contains(t, CodeOpen) /\ ~Contains(t, CodeClose)

\* the first fence of the text begins a line: it opens the first code block
OpensBlock(t) == FirstFence(t) > 0 /\ (FirstFence(t) = 1 \/ t[FirstFence(t) - 1] = NL)

\* C12: the post-processing takes the blank line in front of a fence only when the
\* fence closes a block: in a text without markers, what stands in front of the
\* first fence line (an opening fence), the blank line between the prose and that
\* fence included, is in the result as it was, and a text without markers and
\* without fences is unchanged.
C12_BlankLineBeforeOpeningFenceKept ==
    [][(pc = "rendered" /\ pc' = "converted" /\ NoMarkers(markdown)) =>
          /\ OpensBlock(markdown) =>
                StartsWith(markdown', SubSeq(markdown, 1, FirstFence(markdown) + 2))
          /\ FirstFence(markdown) = 0 => markdown' = markdown]_vars

(***************************************************************************)
(* _process_code_blocks under any configured prefixes                      *)
(***************************************************************************)
\* the pre elements of the parsed soup that hold a code element
PresWithCode ==
    {parsed[i].id : i \in {k \in DOMAIN parsed :
        /\ parsed[k].name = "pre"
        /\ \E d \in DOMAIN Descendants(parsed, parsed[k].id) :
              Descendants(parsed, parsed[k].id)[d].name = "code"}}

\* the pre holds one string, a fenced unit: a fence and a language tag on the first
\* line, a fence on the last
IsFencedUnit(s, pre) ==
    LET below == Descendants(s, pre)
    IN /\ Len(below) = 1
       /\ below[1].name = TextNode
       /\ StartsWith(below[1].text, Fence)
       /\ EndsWith(below[1].text, <<NL>> \o Fence)

\* C13: whatever prefixes are configured (a prefix without "-", such as lang, too)
\* and whatever classes the code element carries, _process_code_blocks does not
\* raise and leaves every pre that held a code element holding a fenced unit; a
\* class that begins with a prefix and holds no "-" gives some language tag.
C13_CodeBlocksNeverRaise ==
    /\ failed # "code"
    /\ pc = "coded" => \A pre \in PresWithCode : IsFencedUnit(soup, pre)

====
